---- MODULE Spec2Model ----
(***************************************************************************)
(* Model of src/app/page.tsx: the Home component's state, its UI handlers  *)
(* and the render session started by createVideo (recorder, image loading, *)
(* the renderFrame timer loop, the recorder's events).                     *)
(*                                                                         *)
(* Numbers.  Times are integer milliseconds.  The duration state holds     *)
(* seconds and may be fractional (the number input accepts "0.4"); it is   *)
(* kept here in tenths of a second, so duration * 1000 of the source is    *)
(* (duration * 1000) \div 10.  transitionProgress is a fraction of         *)
(* transitionDuration and is kept as its numerator over 500.               *)
(*                                                                         *)
(* Clock.  Date.now() is read at line 95 and in every renderFrame; the     *)
(* model keeps Date.now() - startTime, and every renderFrame takes as      *)
(* input the time that passed since the previous read (a clock that does   *)
(* not go backwards).  A timeout fires no earlier than its delay.          *)
(***************************************************************************)
EXTENDS Integers, Sequences, FiniteSets, TLC

\* ------------------------------------------------------------------ bounds
MaxImages == 2

\* drawImageCover is exercised on its own with every width and height in 1..MaxDim
MaxDim == 4

\* ------------------------------------------------------ inputs (small sets)
Pictures == {"A", "B"}
FileTypes == {"image/png", "text/plain"}
Files == [type : FileTypes, pic : Pictures]
\* one file, or a text file and a picture dropped together
FileBatches ==
    {<<f>> : f \in Files} \cup
    {<<[type |-> "text/plain", pic |-> "A"], [type |-> "image/png", pic |-> "B"]>>}
\* values the duration input can set, in tenths of a second: "" -> 0, 0.4, 3
DurationChoices == {0, 4, 30}
Styles == {"fade", "slide", "zoom"}
\* size of the data the recorder hands to ondataavailable
ChunkSizes == {0, 1}
\* time between two renderFrame calls (a slow frame, a stalled page)
TickSteps == {700, 2800}

\* --------------------------------------------------------- program constants
transitionDuration == 500
fps == 30
frameDuration == 1000 \div fps
canvasWidth == 1920
canvasHeight == 1080

\* the longest program the inputs can make, and the image loading times
MaxTotal == MaxImages * 30 * 100
LoadDelays == {0, 300, MaxTotal}

VARIABLES
    images,        \* useState images: the pictures, in order
    duration,      \* useState duration (tenths of a second)
    transition,    \* useState transition
    isCreating,    \* useState isCreating
    videoUrl,      \* useState videoUrl ("" or an object URL)
    blobSize,      \* size of the Blob behind videoUrl
    lastCall,      \* how the latest createVideo invocation left its synchronous part
    pc,            \* createVideo's async position: idle, loading, returned, rejected
    cImages,       \* images as captured by the createVideo closure
    cDuration,     \* duration as captured by the closure
    cTransition,   \* transition as captured by the closure
    loadedImages,  \* const loadedImages (line 106)
    currentTime,   \* let currentTime (line 94)
    timers,        \* pending setTimeout(renderFrame) callbacks
    recorder,      \* MediaRecorder.state: none (not constructed), recording, inactive
    stopCalls,     \* mediaRecorder.stop() calls on this session's recorder
    events,        \* recorder events queued for dispatch
    chunks,        \* const chunks (line 72): sizes of the pushed blobs
    canvas,        \* what was drawn on the canvas since it was last reset or fully cleared
    ctx,           \* the 2D context's drawing state: globalAlpha, transform, save stack
    tick           \* locals of the latest renderFrame that drew

uiVars == <<images, duration, transition, isCreating, videoUrl, blobSize>>
closureVars == <<cImages, cDuration, cTransition, loadedImages, currentTime>>
sinkVars == <<recorder, stopCalls, events, chunks>>
vars == <<images, duration, transition, isCreating, videoUrl, blobSize, lastCall, pc,
          cImages, cDuration, cTransition, loadedImages, currentTime, timers,
          recorder, stopCalls, events, chunks, canvas, ctx, tick>>


\* ------------------------------------------------------------- small helpers
RECURSIVE SumSeq(_)
SumSeq(s) == IF s = <<>> THEN 0 ELSE Head(s) + SumSeq(Tail(s))

\* file.type.startsWith('image/')
IsImageType(type) == type \in {"image/png"}

\* files.filter(...).map(...): the pictures of the image files, in order
RECURSIVE NewImages(_)
NewImages(files) ==
    IF files = <<>> THEN <<>>
    ELSE IF IsImageType(Head(files).type)
         THEN <<Head(files).pic>> \o NewImages(Tail(files))
         ELSE NewImages(Tail(files))

\* prev.filter((_, i) => i !== index), index counted from 0
RemoveAt(s, index) ==
    [k \in 1..(Len(s) - 1) |-> IF k <= index THEN s[k] ELSE s[k + 1]]

\* ------------------------------------------------ the 2D context and canvas
\* Fractions: globalAlpha is kept as its numerator over 500; the transform is
\* x -> (a*x + e)/5000, y -> (a*y + f)/5000 (uniform scale a, translation e, f).
AlphaOne == transitionDuration
UnitScale == 10 * transitionDuration

\* (m * x) / UnitScale without leaving 32 bits
Scaled(m, x) == (x \div UnitScale) * m + ((x % UnitScale) * m) \div UnitScale

DefaultCtx ==
    [fillStyle |-> "#000", alpha |-> AlphaOne, a |-> UnitScale, e |-> 0, f |-> 0,
     stack |-> <<>>]

Cmd(c, img, x, y) == [c |-> c, img |-> img, x |-> x, y |-> y]

\* an opaque fill of the whole canvas under the identity transform
IsFullClear(st, cmd) ==
    /\ st.alpha = AlphaOne /\ st.a = UnitScale /\ st.e = 0 /\ st.f = 0
    /\ cmd.x = canvasWidth /\ cmd.y = canvasHeight

FillOp(st) ==
    [op |-> "fill", img |-> st.fillStyle, alpha |-> st.alpha, a |-> st.a, e |-> st.e, f |-> st.f]

\* img.width and img.height of the decoded pictures: "A" is wider than the
\* 16:9 canvas, "B" is narrower
PicWidth(img) == IF img = "A" THEN 40 ELSE 10
PicHeight(img) == IF img = "A" THEN 10 ELSE 20

\* contain-fit: the two branches of the ratio test exchanged
DrawImageContain(imgW, imgH, cW, cH) ==
    IF imgW * cH < cW * imgH
    THEN [den |-> 2 * imgH, drawWidth |-> 2 * imgW * cH, drawHeight |-> 2 * imgH * cH,
          offsetX |-> cW * imgH - imgW * cH, offsetY |-> 0]
    ELSE [den |-> 2 * imgW, drawWidth |-> 2 * imgW * cW, drawHeight |-> 2 * imgH * cW,
          offsetX |-> 0, offsetY |-> cH * imgW - imgH * cW]

\* drawImageCover's rectangle.  The quotients are kept exact: drawWidth,
\* drawHeight, offsetX and offsetY are numerators over den.
\*   imgRatio > canvasRatio  <=>  imgW * cH > cW * imgH  (all four positive)
\*   drawWidth = imgW * (cH / imgH), offsetX = (cW - drawWidth) / 2   over 2 * imgH
\*   drawHeight = imgH * (cW / imgW), offsetY = (cH - drawHeight) / 2 over 2 * imgW
DrawImageCover(imgW, imgH, cW, cH) ==
    IF imgW * cH > cW * imgH
    THEN [den |-> 2 * imgH, drawWidth |-> 2 * imgW * cH, drawHeight |-> 2 * imgH * cH,
          offsetX |-> cW * imgH - imgW * cH, offsetY |-> 0]
    ELSE [den |-> 2 * imgW, drawWidth |-> 2 * imgW * cW, drawHeight |-> 2 * imgH * cW,
          offsetX |-> 0, offsetY |-> cH * imgW - imgH * cW]

\* drawImageCover(ctx, img, cW, cH): the drawImage call it ends with, under the
\* context's opacity and transform
CoverOp(st, img, imgW, imgH, cW, cH) ==
    [op |-> "image", img |-> img, alpha |-> st.alpha, a |-> st.a, e |-> st.e, f |-> st.f,
     imgW |-> imgW, imgH |-> imgH, canvasW |-> cW, canvasH |-> cH,
     rect |-> DrawImageCover(imgW, imgH, cW, cH)]

\* every call of renderFrame passes canvas.width and canvas.height
ImageOp(st, img) ==
    CoverOp(st, img, PicWidth(img), PicHeight(img), canvasWidth, canvasHeight)

\* One context call.  r = [ctx, canvas, threw].
\*   fillStyle, globalAlpha (a value outside [0, 1] is ignored), save, restore,
\*   translate(x, y) (x, y in pixels * 5000), scale(x/5000, x/5000),
\*   fillRect(0, 0, x, y), drawImageCover(img) (reading img.width of undefined throws)
Step(r, cmd) ==
    LET st == r.ctx IN
    CASE cmd.c = "fillStyle" -> [r EXCEPT !.ctx.fillStyle = cmd.img]
      [] cmd.c = "globalAlpha" ->
            IF cmd.x >= 0 /\ cmd.x <= AlphaOne THEN [r EXCEPT !.ctx.alpha = cmd.x] ELSE r
      [] cmd.c = "save" ->
            [r EXCEPT !.ctx.stack = Append(st.stack, [fillStyle |-> st.fillStyle, alpha |-> st.alpha,
                                                     a |-> st.a, e |-> st.e, f |-> st.f])]
      [] cmd.c = "restore" ->
            IF st.stack = <<>> THEN r
            ELSE LET top == st.stack[Len(st.stack)] IN
                 [r EXCEPT !.ctx = [fillStyle |-> top.fillStyle, alpha |-> top.alpha, a |-> top.a,
                                    e |-> top.e, f |-> top.f,
                                    stack |-> SubSeq(st.stack, 1, Len(st.stack) - 1)]]
      [] cmd.c = "translate" ->
            [r EXCEPT !.ctx.e = st.e + Scaled(st.a, cmd.x),
                      !.ctx.f = st.f + Scaled(st.a, cmd.y)]
      [] cmd.c = "scale" -> [r EXCEPT !.ctx.a = Scaled(st.a, cmd.x)]
      [] cmd.c = "fillRect" ->
            IF IsFullClear(st, cmd) THEN [r EXCEPT !.canvas = <<FillOp(st)>>]
            ELSE [r EXCEPT !.canvas = Append(r.canvas, FillOp(st))]
      [] cmd.c = "drawImageCover" ->
            IF cmd.img = "undefined" THEN [r EXCEPT !.threw = TRUE]
            ELSE [r EXCEPT !.canvas = Append(r.canvas, ImageOp(st, cmd.img))]
      [] OTHER -> r

\* the calls in order; an exception ends the callback
RECURSIVE Exec(_, _)
Exec(cmds, r) ==
    IF cmds = <<>> \/ r.threw THEN r
    ELSE Exec(Tail(cmds), Step(r, Head(cmds)))

\* ------------------------------------------------- createVideo's constants
\* reading the live state instead of the value the closure captured
LiveImages == images

\* the closure reads the state values of the render in which it was created
ClosureImages == cImages
ClosureDuration == cDuration
ClosureTransition == cTransition

\* a timeline one picture too long
TotalDurationOneMore(n, d) == ((n + 1) * d * 1000) \div 10

\* images.length * duration * 1000 and duration * 1000 (duration in tenths)
TotalDurationOf(n, d) == (n * d * 1000) \div 10
ImageDurationOf(d) == (d * 1000) \div 10

totalDuration == TotalDurationOf(Len(ClosureImages), ClosureDuration)
imageDuration == ImageDurationOf(ClosureDuration)

\* ------------------------------------------------------------- renderFrame
\* the end test written with > for >=
FinishedStrict(t, total) == t > total

\* currentTime >= totalDuration
Finished(t, total) == t >= total

\* Math.floor(currentTime / imageDuration); a division by 0 gives no array index
CurrentIndex(t, imgDur) == IF imgDur = 0 THEN -1 ELSE t \div imgDur

\* the next index without the wraparound
NextIndexNoWrap(currentIndex, n) == currentIndex + 1

\* (currentIndex + 1) % images.length
NextIndex(currentIndex, n) == IF n = 0 THEN -1 ELSE (currentIndex + 1) % n

\* currentTime % imageDuration (NaN for a zero imageDuration: every comparison is false)
TimeInCurrentImage(t, imgDur) == IF imgDur = 0 THEN 0 ELSE t % imgDur

\* the window taken at the start of the picture's slot instead of its end
InTransitionAtStart(timeIn, imgDur) == ~(timeIn >= transitionDuration)

\* the else branch of: timeInCurrentImage < imageDuration - transitionDuration
InTransition(timeIn, imgDur) == ~(timeIn < imgDur - transitionDuration)

\* the progress with the inner parentheses dropped
TransitionProgressFlat(timeIn, imgDur) == timeIn - imgDur - transitionDuration

\* (timeInCurrentImage - (imageDuration - transitionDuration)) / transitionDuration,
\* as its numerator over transitionDuration
TransitionProgress(timeIn, imgDur) == timeIn - (imgDur - transitionDuration)

\* loadedImages[index], index counted from 0; undefined outside the array
ImageAt(loaded, index) ==
    IF index + 1 \in DOMAIN loaded THEN loaded[index + 1] ELSE "undefined"

\* ctx.fillStyle = '#000'; ctx.fillRect(0, 0, canvas.width, canvas.height)
ClearCommands ==
    <<Cmd("fillStyle", "#000", 0, 0), Cmd("fillRect", "", canvasWidth, canvasHeight)>>

\* fade without the closing ctx.globalAlpha = 1
FadeCommandsNoReset(currentImg, nextImg, p) ==
    <<Cmd("drawImageCover", currentImg, 0, 0),
      Cmd("globalAlpha", "", p, 0),
      Cmd("drawImageCover", nextImg, 0, 0)>>

\* the three styles; p is the progress numerator
FadeCommands(currentImg, nextImg, p) ==
    <<Cmd("drawImageCover", currentImg, 0, 0),
      Cmd("globalAlpha", "", p, 0),
      Cmd("drawImageCover", nextImg, 0, 0),
      Cmd("globalAlpha", "", AlphaOne, 0)>>

\* slide without the restore after the next picture: the translation stays
SlideCommandsNoRestore(currentImg, nextImg, p) ==
    LET offset == canvasWidth * p * 10 IN
    <<Cmd("save", "", 0, 0),
      Cmd("translate", "", 0 - offset, 0),
      Cmd("drawImageCover", currentImg, 0, 0),
      Cmd("restore", "", 0, 0),
      Cmd("save", "", 0, 0),
      Cmd("translate", "", canvasWidth * UnitScale - offset, 0),
      Cmd("drawImageCover", nextImg, 0, 0)>>

\* offset = canvas.width * transitionProgress, in pixels * 5000
SlideCommands(currentImg, nextImg, p) ==
    LET offset == canvasWidth * p * 10 IN
    <<Cmd("save", "", 0, 0),
      Cmd("translate", "", 0 - offset, 0),
      Cmd("drawImageCover", currentImg, 0, 0),
      Cmd("restore", "", 0, 0),
      Cmd("save", "", 0, 0),
      Cmd("translate", "", canvasWidth * UnitScale - offset, 0),
      Cmd("drawImageCover", nextImg, 0, 0),
      Cmd("restore", "", 0, 0)>>

\* scale = 1 + transitionProgress * 0.3, as its numerator over 5000
ZoomCommands(currentImg, nextImg, p) ==
    LET scale == UnitScale + 3 * p IN
    <<Cmd("save", "", 0, 0),
      Cmd("translate", "", (canvasWidth \div 2) * UnitScale, (canvasHeight \div 2) * UnitScale),
      Cmd("scale", "", scale, scale),
      Cmd("translate", "", 0 - (canvasWidth \div 2) * UnitScale, 0 - (canvasHeight \div 2) * UnitScale),
      Cmd("globalAlpha", "", AlphaOne - p, 0),
      Cmd("drawImageCover", currentImg, 0, 0),
      Cmd("restore", "", 0, 0),
      Cmd("globalAlpha", "", p, 0),
      Cmd("drawImageCover", nextImg, 0, 0),
      Cmd("globalAlpha", "", AlphaOne, 0)>>

TransitionCommands(style, currentImg, nextImg, p) ==
    CASE style = "fade" -> FadeCommands(currentImg, nextImg, p)
      [] style = "slide" -> SlideCommands(currentImg, nextImg, p)
      [] style = "zoom" -> ZoomCommands(currentImg, nextImg, p)
      [] OTHER -> <<>>

\* the locals of a renderFrame that got past the end test
Locals(t, n, imgDur) ==
    LET currentIndex == CurrentIndex(t, imgDur)
        timeIn == TimeInCurrentImage(t, imgDur)
    IN  [t |-> t,
         currentIndex |-> currentIndex,
         nextIndex |-> NextIndex(currentIndex, n),
         timeInCurrentImage |-> timeIn,
         inTransition |-> InTransition(timeIn, imgDur),
         transitionProgress |-> IF InTransition(timeIn, imgDur)
                                THEN TransitionProgress(timeIn, imgDur) ELSE 0]

NoTick ==
    [t |-> -1, currentIndex |-> 0, nextIndex |-> 0, timeInCurrentImage |-> 0,
     inTransition |-> FALSE, transitionProgress |-> 0]

\* lines 122-161: the context calls of one frame
FrameCommands(loc, loaded, style) ==
    LET currentImg == ImageAt(loaded, loc.currentIndex)
        nextImg == ImageAt(loaded, loc.nextIndex)
    IN  ClearCommands \o
        (IF ~loc.inTransition
         THEN <<Cmd("drawImageCover", currentImg, 0, 0)>>
         ELSE TransitionCommands(style, currentImg, nextImg, loc.transitionProgress))

\* mediaRecorder.stop(): on a recording recorder, data and then the stop event follow
Stop ==
    /\ stopCalls' = stopCalls + 1
    /\ recorder' = "inactive"
    /\ events' = IF recorder = "recording" THEN events \o <<"dataavailable", "stop">> ELSE events

\* renderFrame on a looping timeline: the sample is taken modulo totalDuration
RenderFrameLooping(t, consumed, loaded) ==
    LET tl == IF totalDuration > 0 THEN t % totalDuration ELSE t
        loc == Locals(tl, Len(ClosureImages), imageDuration)
        r == Exec(FrameCommands(loc, loaded, ClosureTransition),
                  [ctx |-> ctx, canvas |-> canvas, threw |-> FALSE])
    IN  /\ currentTime' = tl
        /\ IF Finished(tl, totalDuration)
           THEN /\ Stop
                /\ timers' = timers - consumed
                /\ UNCHANGED <<canvas, ctx, tick>>
           ELSE /\ tick' = loc
                /\ canvas' = r.canvas
                /\ ctx' = r.ctx
                /\ timers' = timers - consumed + (IF r.threw THEN 0 ELSE 1)
                /\ UNCHANGED <<recorder, stopCalls, events>>

\* renderFrame without the return after mediaRecorder.stop(): the timer is set again
RenderFrameNoReturn(t, consumed, loaded) ==
    /\ currentTime' = t
    /\ IF Finished(t, totalDuration)
       THEN /\ Stop
            /\ timers' = timers - consumed + 1
            /\ UNCHANGED <<canvas, ctx, tick>>
       ELSE LET loc == Locals(t, Len(ClosureImages), imageDuration)
                r == Exec(FrameCommands(loc, loaded, ClosureTransition),
                          [ctx |-> ctx, canvas |-> canvas, threw |-> FALSE])
            IN  /\ tick' = loc
                /\ canvas' = r.canvas
                /\ ctx' = r.ctx
                /\ timers' = timers - consumed + (IF r.threw THEN 0 ELSE 1)
                /\ UNCHANGED <<recorder, stopCalls, events>>

\* renderFrame, sampling Date.now() - startTime = t; consumed = 1 for a timer callback
RenderFrame(t, consumed, loaded) ==
    /\ currentTime' = t
    /\ IF Finished(t, totalDuration)
       THEN /\ Stop
            /\ timers' = timers - consumed
            /\ UNCHANGED <<canvas, ctx, tick>>
       ELSE LET loc == Locals(t, Len(ClosureImages), imageDuration)
                r == Exec(FrameCommands(loc, loaded, ClosureTransition),
                          [ctx |-> ctx, canvas |-> canvas, threw |-> FALSE])
            IN  /\ tick' = loc
                /\ canvas' = r.canvas
                /\ ctx' = r.ctx
                /\ timers' = timers - consumed + (IF r.threw THEN 0 ELSE 1)
                /\ UNCHANGED <<recorder, stopCalls, events>>

\* ------------------------------------------------------------------- state
Init ==
    /\ images = <<>>
    /\ duration = 30
    /\ transition = "fade"
    /\ isCreating = FALSE
    /\ videoUrl = ""
    /\ blobSize = 0
    /\ lastCall = "none"
    /\ pc = "idle"
    /\ cImages = <<>>
    /\ cDuration = 0
    /\ cTransition = ""
    /\ loadedImages = <<>>
    /\ currentTime = 0
    /\ timers = 0
    /\ recorder = "none"
    /\ stopCalls = 0
    /\ events = <<>>
    /\ chunks = <<>>
    /\ canvas = <<>>
    /\ ctx = DefaultCtx
    /\ tick = NoTick

sessionVars == <<lastCall, pc, cImages, cDuration, cTransition, loadedImages, currentTime,
                 timers, recorder, stopCalls, events, chunks, canvas, ctx, tick>>

\* ------------------------------------------------------------- UI handlers
\* handleFileSelect / handleDrop -> addImages(files)
AddImages(files) ==
    /\ Len(images) + Len(NewImages(files)) <= MaxImages
    /\ images' = images \o NewImages(files)
    /\ UNCHANGED <<duration, transition, isCreating, videoUrl, blobSize>>
    /\ UNCHANGED sessionVars

\* the remove button of image index (0-based)
RemoveImage(index) ==
    /\ index \in 0..(Len(images) - 1)
    /\ images' = RemoveAt(images, index)
    /\ UNCHANGED <<duration, transition, isCreating, videoUrl, blobSize>>
    /\ UNCHANGED sessionVars

\* the duration input: setDuration(Number(e.target.value)); rendered with the controls
SetDuration(value) ==
    /\ Len(images) > 0
    /\ duration' = value
    /\ UNCHANGED <<images, transition, isCreating, videoUrl, blobSize>>
    /\ UNCHANGED sessionVars

\* the transition select: setTransition(e.target.value)
SetTransition(value) ==
    /\ Len(images) > 0
    /\ transition' = value
    /\ UNCHANGED <<images, duration, isCreating, videoUrl, blobSize>>
    /\ UNCHANGED sessionVars

\* ------------------------------------------------------------- createVideo
\* The create button is disabled while isCreating (line 268).  It is also
\* disabled (and not rendered) while images is empty; the handler is modelled
\* as callable in that state too, so that its own test at line 54 is exercised.
\* The canvas is always mounted, so canvasRef.current is never null.
CreateButtonEnabled == ~isCreating

\* the guard of line 54 left out
NoInputNever == FALSE

\* images.length === 0 || !canvasRef.current
NoInput == Len(images) = 0

\* createVideo without setVideoUrl(''): the video of the session before stays
CreateVideoKeepsUrl(ctxOk, sink) ==
    /\ CreateButtonEnabled
    /\ IF NoInput
       THEN /\ lastCall' = "noInput"
            /\ UNCHANGED <<images, duration, transition, isCreating, videoUrl, blobSize>>
            /\ UNCHANGED <<pc, cImages, cDuration, cTransition, loadedImages, currentTime,
                           timers, recorder, stopCalls, events, chunks, canvas, ctx, tick>>
       ELSE /\ isCreating' = TRUE
            /\ UNCHANGED <<videoUrl, blobSize>>
            /\ UNCHANGED <<images, duration, transition>>
            /\ IF ~ctxOk
               THEN /\ lastCall' = "noCtx"
                    /\ UNCHANGED <<pc, cImages, cDuration, cTransition, loadedImages,
                                   currentTime, timers, recorder, stopCalls, events, chunks,
                                   canvas, ctx, tick>>
               ELSE \* canvas.width = 1920; canvas.height = 1080 reset the bitmap and the context
                    /\ canvas' = <<>>
                    /\ ctx' = DefaultCtx
                    /\ tick' = NoTick
                    /\ timers' = 0
                    /\ stopCalls' = 0
                    /\ events' = <<>>
                    /\ chunks' = <<>>
                    /\ loadedImages' = <<>>
                    /\ IF sink # "ok"
                       THEN \* new MediaRecorder(...) or start() threw: the promise is rejected
                            /\ lastCall' = "threw"
                            /\ pc' = "rejected"
                            /\ recorder' = IF sink = "startThrows" THEN "inactive" ELSE "none"
                            /\ UNCHANGED <<cImages, cDuration, cTransition, currentTime>>
                       ELSE /\ lastCall' = "started"
                            /\ recorder' = "recording"
                            /\ cImages' = images
                            /\ cDuration' = duration
                            /\ cTransition' = transition
                            /\ currentTime' = 0
                            /\ pc' = "loading"

\* lines 53-106, up to the await.  ctxOk: getContext('2d') returned a context;
\* sink: the MediaRecorder constructor or start() may throw.
CreateVideo(ctxOk, sink) ==
    /\ CreateButtonEnabled
    /\ IF NoInput
       THEN /\ lastCall' = "noInput"
            /\ UNCHANGED <<images, duration, transition, isCreating, videoUrl, blobSize>>
            /\ UNCHANGED <<pc, cImages, cDuration, cTransition, loadedImages, currentTime,
                           timers, recorder, stopCalls, events, chunks, canvas, ctx, tick>>
       ELSE /\ isCreating' = TRUE
            /\ videoUrl' = ""
            /\ blobSize' = 0
            /\ UNCHANGED <<images, duration, transition>>
            /\ IF ~ctxOk
               THEN /\ lastCall' = "noCtx"
                    /\ UNCHANGED <<pc, cImages, cDuration, cTransition, loadedImages,
                                   currentTime, timers, recorder, stopCalls, events, chunks,
                                   canvas, ctx, tick>>
               ELSE \* canvas.width = 1920; canvas.height = 1080 reset the bitmap and the context
                    /\ canvas' = <<>>
                    /\ ctx' = DefaultCtx
                    /\ tick' = NoTick
                    /\ timers' = 0
                    /\ stopCalls' = 0
                    /\ events' = <<>>
                    /\ chunks' = <<>>
                    /\ loadedImages' = <<>>
                    /\ IF sink # "ok"
                       THEN \* new MediaRecorder(...) or start() threw: the promise is rejected
                            /\ lastCall' = "threw"
                            /\ pc' = "rejected"
                            /\ recorder' = IF sink = "startThrows" THEN "inactive" ELSE "none"
                            /\ UNCHANGED <<cImages, cDuration, cTransition, currentTime>>
                       ELSE /\ lastCall' = "started"
                            /\ recorder' = "recording"
                            /\ cImages' = images
                            /\ cDuration' = duration
                            /\ cTransition' = transition
                            /\ currentTime' = 0
                            /\ pc' = "loading"

\* Promise.all resolved dt ms after startTime was read; lines 106-166 with the
\* first, synchronous renderFrame()
LoadResolved(dt) ==
    /\ pc = "loading"
    /\ pc' = "returned"
    /\ loadedImages' = ClosureImages
    /\ RenderFrame(currentTime + dt, 0, ClosureImages)
    /\ UNCHANGED <<images, duration, transition, isCreating, videoUrl, blobSize>>
    /\ UNCHANGED <<lastCall, cImages, cDuration, cTransition, chunks>>

\* an image fired onerror: Promise.all rejects and createVideo's promise with it
LoadRejected ==
    /\ pc = "loading"
    /\ pc' = "rejected"
    /\ UNCHANGED <<images, duration, transition, isCreating, videoUrl, blobSize>>
    /\ UNCHANGED <<lastCall, cImages, cDuration, cTransition, loadedImages, currentTime,
                   timers, recorder, stopCalls, events, chunks, canvas, ctx, tick>>

\* a setTimeout(renderFrame, frameDuration) callback, dt ms after the previous frame
Tick(dt) ==
    /\ timers > 0
    /\ dt >= frameDuration
    /\ RenderFrame(currentTime + dt, 1, loadedImages)
    /\ UNCHANGED <<images, duration, transition, isCreating, videoUrl, blobSize>>
    /\ UNCHANGED <<lastCall, pc, cImages, cDuration, cTransition, loadedImages, chunks>>

\* mediaRecorder.ondataavailable
DataAvailable(size) ==
    /\ events # <<>> /\ Head(events) = "dataavailable"
    /\ events' = Tail(events)
    /\ chunks' = IF size > 0 THEN Append(chunks, size) ELSE chunks
    /\ UNCHANGED <<images, duration, transition, isCreating, videoUrl, blobSize>>
    /\ UNCHANGED <<lastCall, pc, cImages, cDuration, cTransition, loadedImages, currentTime,
                   timers, recorder, stopCalls, canvas, ctx, tick>>

\* mediaRecorder.onstop.  Nothing refers to the closure afterwards: its
\* locals are dropped.
OnStop ==
    /\ events # <<>> /\ Head(events) = "stop"
    /\ events' = Tail(events)
    /\ blobSize' = SumSeq(chunks)
    /\ videoUrl' = "blob:video"
    /\ isCreating' = FALSE
    /\ pc' = "idle"
    /\ cImages' = <<>>
    /\ cDuration' = 0
    /\ cTransition' = ""
    /\ loadedImages' = <<>>
    /\ currentTime' = 0
    /\ tick' = NoTick
    /\ UNCHANGED <<images, duration, transition>>
    /\ UNCHANGED <<lastCall, timers, recorder, stopCalls, chunks, canvas, ctx>>

Next ==
    \/ \E files \in FileBatches : AddImages(files)
    \/ \E index \in 0..(MaxImages - 1) : RemoveImage(index)
    \/ \E value \in DurationChoices : SetDuration(value)
    \/ \E value \in Styles : SetTransition(value)
    \/ \E ctxOk \in BOOLEAN, sink \in {"ok", "ctorThrows", "startThrows"} : CreateVideo(ctxOk, sink)
    \/ \E dt \in LoadDelays : LoadResolved(dt)
    \/ LoadRejected
    \/ \E dt \in TickSteps : Tick(dt)
    \/ \E size \in ChunkSizes : DataAvailable(size)
    \/ OnStop

Spec == Init /\ [][Next]_vars

\* the scheduling the browser gives: a settled promise resumes its await, a due
\* timeout fires, a queued recorder event is dispatched
FairSpec ==
    /\ Spec
    /\ WF_vars(\E dt \in LoadDelays : LoadResolved(dt))
    /\ WF_vars(\E dt \in TickSteps : Tick(dt))
    /\ WF_vars(\E size \in ChunkSizes : DataAvailable(size))
    /\ WF_vars(OnStop)

\* ------------------------------------------- the drawing code on its own
\* drawImageCover and the drawing part of renderFrame (lines 122-161) as
\* functions of their arguments, applied to the canvas and context whatever
\* they hold from the call before.
Dims == 1..MaxDim

\* transitionProgress numerators over 500, the two ends included
ProgressSamples == {0, 100, 300, AlphaOne}

\* drawImageCover(ctx, img, cW, cH) on a canvas just sized cW x cH
DrawCover(imgW, imgH, cW, cH) ==
    /\ canvas' = <<CoverOp(DefaultCtx, "P", imgW, imgH, cW, cH)>>
    /\ ctx' = DefaultCtx
    /\ tick' = NoTick
    /\ UNCHANGED <<uiVars, lastCall, pc, cImages, cDuration, cTransition, loadedImages,
                   currentTime, timers, sinkVars>>

\* lines 122-161 for given locals: the pictures, the style, the branch and the progress
DrawFrame(style, currentImg, nextImg, inTransition, p) ==
    LET loc == [t |-> 0, currentIndex |-> 0, nextIndex |-> 1, timeInCurrentImage |-> 0,
                inTransition |-> inTransition, transitionProgress |-> p]
        r == Exec(FrameCommands(loc, <<currentImg, nextImg>>, style),
                  [ctx |-> ctx, canvas |-> canvas, threw |-> FALSE])
    IN  /\ tick' = loc
        /\ loadedImages' = <<currentImg, nextImg>>
        /\ cTransition' = style
        /\ canvas' = r.canvas
        /\ ctx' = r.ctx
        /\ UNCHANGED <<uiVars, lastCall, pc, cImages, cDuration, currentTime, timers, sinkVars>>

DrawNext ==
    \/ \E imgW \in Dims, imgH \in Dims, cW \in Dims, cH \in Dims : DrawCover(imgW, imgH, cW, cH)
    \/ \E style \in Styles, currentImg \in Pictures, nextImg \in Pictures, p \in ProgressSamples :
          DrawFrame(style, currentImg, nextImg, TRUE, p)
    \/ \E style \in Styles, currentImg \in Pictures, nextImg \in Pictures :
          DrawFrame(style, currentImg, nextImg, FALSE, 0)

DrawSpec == Init /\ [][DrawNext]_vars

\* ------------------------------------------------------------------ claims
\* a step in which renderFrame ran: the first call after the await, or a timer callback
RenderStep ==
    \/ pc = "loading" /\ pc' = "returned"
    \/ pc = "returned" /\ pc' = "returned" /\ currentTime' # currentTime

\* a step in which renderFrame drew a frame
FrameStep == tick' # tick /\ tick'.t >= 0

\* the one clear that starts a frame
ClearOp ==
    [op |-> "fill", img |-> "#000", alpha |-> AlphaOne, a |-> UnitScale, e |-> 0, f |-> 0]

ImagesOn(cv) == {k \in DOMAIN cv : cv[k].op = "image"}

\* C1: in every session stop() is called at most once, every frame is drawn
\* before that call (a frame is drawn only while stop() has not been called), and
\* the session completes (isCreating falls) only after exactly one stop() call.
C1_StopOnceAfterLastFrame ==
    [][ /\ stopCalls' <= 1
        /\ FrameStep => stopCalls' = 0 /\ recorder' = "recording"
        /\ (isCreating /\ ~isCreating') => stopCalls = 1 ]_vars

\* C1 witness: frames were drawn, then the recorder was stopped
C1_Witness == stopCalls = 1 /\ Len(canvas) >= 2 /\ events # <<>>

C3_RunningSessionProceeds ==
    recorder = "recording" => (pc = "loading" \/ timers > 0)

C5_PureOrComposite ==
    tick.t >= 0 =>
      LET imgDur == ImageDurationOf(cDuration)
          timeIn == tick.t % imgDur
          cur == loadedImages[tick.currentIndex + 1]
          nxt == loadedImages[tick.nextIndex + 1]
      IN  /\ tick.timeInCurrentImage = timeIn
          /\ IF timeIn < imgDur - 500
             THEN /\ ~tick.inTransition
                  /\ canvas = <<ClearOp, ImageOp(DefaultCtx, cur)>>
             ELSE /\ tick.inTransition
                  /\ tick.transitionProgress = timeIn - (imgDur - 500)
                  /\ Len(canvas) = 3
                  /\ canvas[1] = ClearOp
                  /\ canvas[2].op = "image" /\ canvas[2].img = cur
                  /\ canvas[3].op = "image" /\ canvas[3].img = nxt
          /\ (cDuration = 30 /\ Len(cImages) >= 2 /\ tick.t = 2800) =>
                tick.currentIndex = 0 /\ tick.nextIndex = 1 /\ tick.transitionProgress = 300
          /\ (cDuration = 30 /\ Len(cImages) >= 2 /\ tick.t = 3100) =>
                tick.currentIndex = 1 /\ ~tick.inTransition /\ canvas[2].img = loadedImages[2]

\* C5 witnesses: the composite of the example at t = 2800 with two different pictures
C5_Witness ==
    /\ cDuration = 30 /\ tick.t = 2800 /\ tick.transitionProgress = 300
    /\ Len(canvas) = 3 /\ canvas[2].img # canvas[3].img

\* C6: the progress of every composited frame is within [0, 1] (0..500 over
\* 500), also for per-image durations of at most the 500 ms transition duration.
C6_ProgressInUnitInterval ==
    (tick.t >= 0 /\ tick.inTransition) =>
        tick.transitionProgress >= 0 /\ tick.transitionProgress <= transitionDuration

\* C6 witness: a composited frame of a 400 ms picture
C6_Witness ==
    /\ tick.t >= 0 /\ tick.inTransition
    /\ ImageDurationOf(cDuration) < transitionDuration
    /\ tick.timeInCurrentImage > 0

\* C7: across the successive frames of one session the sampled elapsed time and
\* currentIndex never decrease.
C7_FramesInTimelineOrder ==
    [][ (tick.t >= 0 /\ tick'.t >= 0) =>
           tick'.t >= tick.t /\ tick'.currentIndex >= tick.currentIndex ]_vars

\* C7 witness: a late frame of the second picture, after frames of the first
C7_Witness ==
    tick.currentIndex = 1 /\ tick.t >= 3000 + 2 * 700 /\ cDuration = 30 /\ timers = 1

\* C8: while a session is loading or ticking, no step changes the pictures,
\* duration or style it captured, loadedImages are the captured pictures, and
\* every frame and every end test is computed from the captured values, whatever
\* the UI state has become.
SessionActive == pc \in {"loading", "returned"}

C8_ProgramImmutable ==
    [][ (SessionActive /\ SessionActive') =>
          /\ cImages' = cImages /\ cDuration' = cDuration /\ cTransition' = cTransition
          /\ loadedImages' # <<>> => loadedImages' = cImages
          /\ FrameStep =>
               /\ tick' = Locals(tick'.t, Len(cImages), ImageDurationOf(cDuration))
               /\ canvas' = Exec(FrameCommands(tick', cImages, cTransition),
                                 [ctx |-> DefaultCtx, canvas |-> <<>>, threw |-> FALSE]).canvas
          /\ RenderStep =>
               (stopCalls' = 1 <=> currentTime' >= TotalDurationOf(Len(cImages), cDuration)) ]_vars

\* C8 witness: a ticking session whose UI state was edited away from its program
C8_Witness ==
    /\ pc = "returned" /\ timers = 1 /\ tick.inTransition
    /\ images = <<>> /\ duration # cDuration /\ transition # cTransition

\* C9: a session whose sink failed to start is over (isCreating is false again),
\* and a session never completes with an empty artifact.
C9_SinkFailureEndsSession ==
    /\ lastCall = "threw" => ~isCreating
    /\ videoUrl # "" => blobSize > 0

\* C10: while images is empty and no session is in flight, no step (createVideo
\* included) constructs or starts the recorder, sets a timer, or changes
\* isCreating or videoUrl.
C10_EmptyListStartsNothing ==
    [][ (Len(images) = 0 /\ ~isCreating) =>
          /\ recorder' = recorder /\ stopCalls' = stopCalls /\ events' = events
          /\ timers' = timers /\ pc' = pc
          /\ isCreating' = isCreating /\ videoUrl' = videoUrl ]_vars

\* C10 witness: createVideo returned at line 54 for an empty list, after a video was made
C10_Witness == lastCall = "noInput" /\ Len(images) = 0 /\ videoUrl # "" /\ ~isCreating

\* C11: no session is started with a non-positive per-image duration: whenever
\* the recorder has been started, the duration the session captured is > 0.
C11_NoNonPositiveDuration ==
    (lastCall = "started" /\ pc \in {"loading", "returned", "rejected"}) => cDuration > 0

\* C14: for all positive picture and canvas sizes, the rectangle drawImageCover
\* draws has drawWidth >= canvasWidth, drawHeight >= canvasHeight, offsetX <= 0
\* and offsetY <= 0, and reaches the right and bottom edges: it contains the
\* whole canvas.
C14_CoverContainsFrame ==
    \A k \in ImagesOn(canvas) :
        LET o == canvas[k]
            r == o.rect
        IN  /\ r.den > 0
            /\ r.drawWidth >= o.canvasW * r.den
            /\ r.drawHeight >= o.canvasH * r.den
            /\ r.offsetX <= 0
            /\ r.offsetY <= 0
            /\ r.offsetX + r.drawWidth >= o.canvasW * r.den
            /\ r.offsetY + r.drawHeight >= o.canvasH * r.den

\* C14 witness: a 4 x 1 picture drawn on a 2 x 3 canvas, cut on both sides
C14_Witness ==
    /\ Len(canvas) = 1 /\ canvas[1].op = "image"
    /\ canvas[1].imgW = MaxDim /\ canvas[1].imgH = 1
    /\ canvas[1].canvasW = 2 /\ canvas[1].canvasH = 3
    /\ canvas[1].rect.offsetX < 0

\* C12: every rendered frame starts with a clear of the whole canvas to black,
\* made at opacity 1 under the identity transform, so the canvas holds nothing
\* of the frame before; and at the end of every tick the context's opacity and
\* transform are at their defaults again (with nothing left on its save stack),
\* for all three styles.
C12_ClearThenDefaults ==
    /\ ctx = DefaultCtx
    /\ tick.t >= 0 =>
          /\ canvas # <<>>
          /\ canvas[1] = ClearOp
          /\ \A k \in 2..Len(canvas) : canvas[k].op = "image"
          /\ Len(canvas) = IF tick.inTransition /\ cTransition \in Styles THEN 3 ELSE 2

\* C12 witness: a zoom composite drawn after an earlier composite of the session
C12_Witness ==
    /\ pc = "returned" /\ cTransition = "zoom" /\ cDuration = 4
    /\ tick.t = 700 /\ tick.inTransition /\ tick.transitionProgress > 0
    /\ Len(canvas) = 3 /\ canvas[2].a > UnitScale /\ ctx = DefaultCtx

\* What a canvas shows, the pictures taken as opaque.  A picture drawn at
\* opacity 0, or translated so that its rectangle misses the canvas, shows
\* nothing; an opaque draw under the identity transform whose rectangle contains
\* the canvas (or the full clear) hides everything drawn before it.
OffCanvas(o) ==
    /\ o.a = UnitScale
    /\ LET r == o.rect
           left == r.offsetX * UnitScale + o.e * r.den
           top == r.offsetY * UnitScale + o.f * r.den
       IN  \/ left >= o.canvasW * r.den * UnitScale
           \/ left + r.drawWidth * UnitScale <= 0
           \/ top >= o.canvasH * r.den * UnitScale
           \/ top + r.drawHeight * UnitScale <= 0

Invisible(o) == o.op = "image" /\ (o.alpha = 0 \/ OffCanvas(o))

HidesAll(o) ==
    /\ o.alpha = AlphaOne /\ o.a = UnitScale /\ o.e = 0 /\ o.f = 0
    /\ \/ o.op = "fill"
       \/ /\ o.rect.offsetX <= 0 /\ o.rect.offsetY <= 0
          /\ o.rect.offsetX + o.rect.drawWidth >= o.canvasW * o.rect.den
          /\ o.rect.offsetY + o.rect.drawHeight >= o.canvasH * o.rect.den

Visible(cv) ==
    LET shown == SelectSeq(cv, LAMBDA o : ~Invisible(o))
        hiders == {k \in DOMAIN shown : HidesAll(shown[k])}
        from == IF hiders = {} THEN 1 ELSE CHOOSE k \in hiders : \A j \in hiders : j <= k
    IN  SubSeq(shown, from, Len(shown))

\* the frame that is a draw of one picture alone
AloneFrame(img) ==
    Exec(ClearCommands \o <<Cmd("drawImageCover", img, 0, 0)>>,
         [ctx |-> DefaultCtx, canvas |-> <<>>, threw |-> FALSE]).canvas

\* C13: for each of the styles fade, slide and zoom, the composite at progress 0
\* shows what a draw of the current picture alone shows, and the composite at
\* progress 1 shows what a draw of the next picture alone shows.
C13_BoundaryContinuity ==
    (tick.t >= 0 /\ tick.inTransition /\ cTransition \in Styles) =>
        /\ tick.transitionProgress = 0 =>
              Visible(canvas) = Visible(AloneFrame(loadedImages[tick.currentIndex + 1]))
        /\ tick.transitionProgress = AlphaOne =>
              Visible(canvas) = Visible(AloneFrame(loadedImages[tick.nextIndex + 1]))

\* C15: while currentIndex = numImages - 1 the next picture is picture 0, so a
\* composite of the last picture blends it into the first; for a one-picture
\* program currentIndex is 0 and nextIndex is 0 in every frame, the composites
\* included (the picture is blended into itself).
C15_Wraparound ==
    tick.t >= 0 =>
        /\ tick.currentIndex = Len(cImages) - 1 =>
              /\ tick.nextIndex = 0
              /\ tick.inTransition =>
                    /\ Len(canvas) = 3
                    /\ canvas[2].img = cImages[Len(cImages)]
                    /\ canvas[3].img = cImages[1]
        /\ Len(cImages) = 1 =>
              /\ tick.currentIndex = 0 /\ tick.nextIndex = 0
              /\ tick.inTransition => canvas[2].img = canvas[3].img

\* C15 witness: the last transition of a two-picture session, from "B" back to "A"
C15_Witness ==
    /\ Len(cImages) = 2 /\ tick.currentIndex = 1 /\ tick.inTransition
    /\ tick.t >= 3000 /\ Len(canvas) = 3
    /\ canvas[2].img = cImages[2] /\ canvas[3].img = cImages[1]
    /\ cImages[1] # cImages[2]

\* C16: the frame on the canvas is a function of the tick's inputs alone (the
\* current and next picture, the style, the branch and the progress that the
\* elapsed time gives): it is the frame the same calls draw on a new canvas with
\* a new context, whatever was drawn, in whatever style, before it.
C16_FrameFromInputsOnly ==
    tick.t >= 0 =>
        canvas = Exec(FrameCommands(tick, loadedImages, cTransition),
                      [ctx |-> DefaultCtx, canvas |-> <<>>, threw |-> FALSE]).canvas

\* C16 witness: a slide composite at progress 0.6 of two different pictures
C16_Witness ==
    /\ tick.t >= 0 /\ tick.inTransition /\ cTransition = "slide"
    /\ tick.transitionProgress = 300
    /\ Len(canvas) = 3 /\ canvas[2].img # canvas[3].img
    /\ canvas[2].e < 0 /\ canvas[3].e > 0

\* C17: every started session with a non-empty program and a positive duration
\* has drawn a frame by the time stop() is called, however long the images took
\* to load after startTime was read.
C17_FrameBeforeStop ==
    (pc = "returned" /\ stopCalls >= 1 /\ Len(cImages) > 0 /\ cDuration > 0) => tick.t >= 0

\* C18: after a createVideo that got no 2D context, no session exists and
\* isCreating is false, so the create button is enabled.
C18_NoContextLeavesUiIdle ==
    lastCall = "noCtx" => (~isCreating /\ CreateButtonEnabled)

\* C19: in every reachable state isCreating implies an empty videoUrl, and a
\* step makes videoUrl non-empty only if it is the recorder's stop callback (the
\* stop event is dispatched, after the one stop() call of the session).
C19_NoUrlWhileCreating ==
    /\ [](isCreating => videoUrl = "")
    /\ [][ (videoUrl' # videoUrl /\ videoUrl' # "") =>
              /\ events # <<>> /\ Head(events) = "stop" /\ events' = Tail(events)
              /\ stopCalls = 1 /\ recorder = "inactive"
              /\ ~isCreating' ]_vars

\* C19 witness: createVideo was clicked after a video had been made (its recorder
\* is inactive after its one stop()), and the earlier video's URL is cleared
C19_Witness ==
    /\ isCreating /\ videoUrl = "" /\ lastCall = "noCtx"
    /\ recorder = "inactive" /\ stopCalls = 1 /\ events = <<>>

====
